---- MODULE Spec2Model ----
(***************************************************************************)
(* Callback-forwarding output streams of bpf-linker's C++ shims:            *)
(*   src/cpp/pwrite_stream_shim.cpp      RustPwriteStream and               *)
(*                                       bpf_linker_emit_to_pwrite_stream   *)
(*   src/cpp/bitcode_ir_stream_shim.cpp  RustRawOStream and                 *)
(*                                       bpf_linker_write_bitcode_to_stream,*)
(*                                       bpf_linker_print_ir_to_stream      *)
(*                                                                         *)
(* One behaviour is one call of one entry point.  The LLVM backend is an    *)
(* external collaborator: while it holds the stream it issues any sequence  *)
(* of write / pwrite calls, and every callback result is an input.          *)
(***************************************************************************)
EXTENDS Integers, Sequences, FiniteSets

VARIABLES
    args,           \* the entry point called and its arguments, non-null = TRUE
                    \* (pwrite_stream_shim.cpp:140-150, bitcode_ir_stream_shim.cpp:79-80, 96-97)
    pc,             \* where the entry point is: "entry", inside the backend call
                    \* it made ("addPassesToEmitFile", "run", "WriteBitcodeToFile",
                    \* "print"), or "returned"
    os,             \* the local stream object `os` (pwrite_stream_shim.cpp:160,
                    \* bitcode_ir_stream_shim.cpp:86, 103)
    user,           \* the caller-owned context `user`: every callback invocation
                    \* it received, in order, with the status it answered
    requests,       \* the stream calls the backend has issued so far
    cant_emit,      \* what addPassesToEmitFile returned (pwrite_stream_shim.cpp:179):
                    \* "pending" before it returns, then "yes" (true) or "no"
    ret,            \* <<>> until the entry point returns, then <<return value>>
    error_message,  \* the caller's char* behind the error_message out-parameter
    outcome,        \* which return statement was taken (pwrite_stream_shim.cpp:
                    \* 157 ConfigurationError, 181 BackendError, 192 SinkError,
                    \* 195 Success)
    ft              \* the local `ft` handed to addPassesToEmitFile
                    \* (pwrite_stream_shim.cpp:166-174), "unset" before

vars == <<args, pc, os, user, requests, cant_emit, ret, error_message, outcome, ft>>

----------------------------------------------------------------------------
(* Bounds of the exploration. *)

\* The backend issues at most this many stream calls in one operation.
MaxCalls == 3

\* A caller of the stream classes alone makes at most this many member calls
\* (write, pwrite, seek_append_pos) before it destroys the stream.
MaxOps == 3

\* Lengths of the buffers the backend writes (0: the empty write).
Sizes == {0, 4, 10}

\* Absolute offsets of the backend's pwrite calls (100 lies beyond anything
\* MaxCalls forward writes can have written: 3 * 10 = 30).
Offsets == {0, 100}

\* Callback return values: 0 is success, anything else is failure.
RCs == {0, 1}

----------------------------------------------------------------------------
(* The caller's sink, as the documented contract of the callbacks describes *)
(* it: a growable contiguous byte store.                                    *)

Max(a, b) == IF a >= b THEN a ELSE b

\* write must append at the current end.
SinkWrite(store, len, byte) ==
    store \o [i \in 1..len |-> byte]

\* pwrite must grow and zero-fill gaps if offset+len exceeds the current size.
SinkPwrite(store, len, offset, byte) ==
    [i \in 1..Max(Len(store), offset + len) |->
        IF i > offset /\ i <= offset + len THEN byte
        ELSE IF i <= Len(store) THEN store[i]
        ELSE 0]

\* The store after the callback invocations of `log`, applied in call order;
\* an invocation that reported failure left the store as it was.
RECURSIVE SinkOf(_)
SinkOf(log) ==
    IF log = <<>> THEN <<>>
    ELSE LET before == SinkOf(SubSeq(log, 1, Len(log) - 1))
             c == log[Len(log)]
         IN  IF c.rc # 0 THEN before
             ELSE IF c.cb = "write" THEN SinkWrite(before, c.len, c.data)
             ELSE IF c.cb = "pwrite" THEN SinkPwrite(before, c.len, c.offset, c.data)
             ELSE before

----------------------------------------------------------------------------
(* class RustPwriteStream (pwrite_stream_shim.cpp)                          *)
(* Every member takes the stream object s and the caller context u and      *)
(* yields both as the call leaves them; rc is what the callback returns if  *)
(* the member invokes it.                                                   *)

NoStream == [state |-> "none"]

RustPwriteStream(wcb, pwcb, scb, fcb) ==
    [state      |-> "live",
     write_cb_  |-> wcb,
     pwrite_cb_ |-> pwcb,
     seek_cb_   |-> scb,
     flush_cb_  |-> fcb,
     pos_       |-> 0,
     had_error_ |-> FALSE]

\* Faulty variant: the teardown never reaches the flush callback.
RustPwriteStream_dtor_no_flush(s, u, rc) ==
    [os |-> [s EXCEPT !.state = "destroyed"], user |-> u]

\* Faulty variant: the teardown flushes without looking at the latch.
RustPwriteStream_dtor_ignores_latch(s, u, rc) ==
    IF s.flush_cb_
    THEN [os   |-> [s EXCEPT !.state = "destroyed",
                             !.had_error_ = (@ \/ rc # 0)],
          user |-> Append(u, [cb |-> "flush", rc |-> rc])]
    ELSE [os |-> [s EXCEPT !.state = "destroyed"], user |-> u]

RustPwriteStream_dtor(s, u, rc) ==
    IF ~s.had_error_ /\ s.flush_cb_
    THEN [os   |-> [s EXCEPT !.state = "destroyed", !.had_error_ = (rc # 0)],
          user |-> Append(u, [cb |-> "flush", rc |-> rc])]
    ELSE [os |-> [s EXCEPT !.state = "destroyed"], user |-> u]

\* Faulty variant: write_impl forwards although the latch is set.
RustPwriteStream_write_impl_ignores_latch(s, u, Size, data, rc) ==
    IF Size = 0 THEN [os |-> s, user |-> u]
    ELSE IF ~s.write_cb_ THEN [os |-> [s EXCEPT !.had_error_ = TRUE], user |-> u]
    ELSE LET u1 == Append(u, [cb |-> "write", len |-> Size, data |-> data, rc |-> rc])
         IN  IF rc # 0
             THEN [os |-> [s EXCEPT !.had_error_ = TRUE], user |-> u1]
             ELSE [os |-> [s EXCEPT !.pos_ = @ + Size], user |-> u1]

\* Faulty variant: write_impl tries the callback a second time when it fails.
RustPwriteStream_write_impl_retries(s, u, Size, data, rc) ==
    IF s.had_error_ \/ Size = 0 THEN [os |-> s, user |-> u]
    ELSE IF ~s.write_cb_ THEN [os |-> [s EXCEPT !.had_error_ = TRUE], user |-> u]
    ELSE LET c  == [cb |-> "write", len |-> Size, data |-> data, rc |-> rc]
         IN  IF rc # 0
             THEN [os |-> [s EXCEPT !.had_error_ = TRUE],
                   user |-> Append(Append(u, c), c)]
             ELSE [os |-> [s EXCEPT !.pos_ = @ + Size], user |-> Append(u, c)]

\* Faulty variant: write_impl counts the bytes of a write the callback refused.
RustPwriteStream_write_impl_counts_failed(s, u, Size, data, rc) ==
    IF s.had_error_ \/ Size = 0 THEN [os |-> s, user |-> u]
    ELSE IF ~s.write_cb_ THEN [os |-> [s EXCEPT !.had_error_ = TRUE], user |-> u]
    ELSE LET u1 == Append(u, [cb |-> "write", len |-> Size, data |-> data, rc |-> rc])
         IN  IF rc # 0
             THEN [os |-> [s EXCEPT !.had_error_ = TRUE, !.pos_ = @ + Size],
                   user |-> u1]
             ELSE [os |-> [s EXCEPT !.pos_ = @ + Size], user |-> u1]

RustPwriteStream_write_impl(s, u, Size, data, rc) ==
    IF s.had_error_ \/ Size = 0 THEN [os |-> s, user |-> u]
    ELSE IF ~s.write_cb_ THEN [os |-> [s EXCEPT !.had_error_ = TRUE], user |-> u]
    ELSE LET u1 == Append(u, [cb |-> "write", len |-> Size, data |-> data, rc |-> rc])
         IN  IF rc # 0
             THEN [os |-> [s EXCEPT !.had_error_ = TRUE], user |-> u1]
             ELSE [os |-> [s EXCEPT !.pos_ = @ + Size], user |-> u1]

\* Faulty variant: a successful pwrite_impl advances the append position.
RustPwriteStream_pwrite_impl_advances_pos(s, u, Size, Offset, data, rc) ==
    IF s.had_error_ \/ Size = 0 THEN [os |-> s, user |-> u]
    ELSE IF ~s.pwrite_cb_ THEN [os |-> [s EXCEPT !.had_error_ = TRUE], user |-> u]
    ELSE LET u1 == Append(u, [cb |-> "pwrite", len |-> Size, offset |-> Offset,
                              data |-> data, rc |-> rc])
         IN  IF rc # 0
             THEN [os |-> [s EXCEPT !.had_error_ = TRUE], user |-> u1]
             ELSE [os |-> [s EXCEPT !.pos_ = @ + Size], user |-> u1]

\* Faulty variant: pwrite_impl refuses a range that ends beyond the position.
RustPwriteStream_pwrite_impl_rejects_beyond_pos(s, u, Size, Offset, data, rc) ==
    IF s.had_error_ \/ Size = 0 THEN [os |-> s, user |-> u]
    ELSE IF ~s.pwrite_cb_ \/ Offset + Size > s.pos_
         THEN [os |-> [s EXCEPT !.had_error_ = TRUE], user |-> u]
    ELSE LET u1 == Append(u, [cb |-> "pwrite", len |-> Size, offset |-> Offset,
                              data |-> data, rc |-> rc])
         IN  IF rc # 0
             THEN [os |-> [s EXCEPT !.had_error_ = TRUE], user |-> u1]
             ELSE [os |-> s, user |-> u1]

RustPwriteStream_pwrite_impl(s, u, Size, Offset, data, rc) ==
    IF s.had_error_ \/ Size = 0 THEN [os |-> s, user |-> u]
    ELSE IF ~s.pwrite_cb_ THEN [os |-> [s EXCEPT !.had_error_ = TRUE], user |-> u]
    ELSE LET u1 == Append(u, [cb |-> "pwrite", len |-> Size, offset |-> Offset,
                              data |-> data, rc |-> rc])
         IN  IF rc # 0
             THEN [os |-> [s EXCEPT !.had_error_ = TRUE], user |-> u1]
             ELSE [os |-> s, user |-> u1]

\* Faulty variant: seek_append_pos notifies the sink but keeps the old position.
seek_append_pos_keeps_pos(s, u, new_pos, rc) ==
    IF s.seek_cb_
    THEN [os     |-> s,
          user   |-> Append(u, [cb |-> "seek", offset |-> new_pos, rc |-> rc]),
          result |-> (rc = 0)]
    ELSE [os |-> s, user |-> u, result |-> TRUE]

\* result is the bool seek_append_pos returns.
seek_append_pos(s, u, new_pos, rc) ==
    LET s1 == [s EXCEPT !.pos_ = new_pos]
    IN  IF s.seek_cb_
        THEN [os     |-> s1,
              user   |-> Append(u, [cb |-> "seek", offset |-> new_pos, rc |-> rc]),
              result |-> (rc = 0)]
        ELSE [os |-> s1, user |-> u, result |-> TRUE]

----------------------------------------------------------------------------
(* class RustRawOStream (bitcode_ir_stream_shim.cpp)                        *)

RustRawOStream(wcb, fcb) ==
    [state      |-> "live",
     write_cb_  |-> wcb,
     flush_cb_  |-> fcb,
     pos_       |-> 0,
     had_error_ |-> FALSE]

\* llvm::raw_ostream::flush() of a stream the constructor made unbuffered:
\* nothing is ever buffered, so no write_impl call results.
raw_ostream_flush(s, u) == [os |-> s, user |-> u]

\* Faulty variant: the teardown flushes without looking at the latch.
RustRawOStream_dtor_ignores_latch(s, u, rc) ==
    LET f == raw_ostream_flush(s, u)
    IN  IF f.os.flush_cb_
        THEN [os   |-> [f.os EXCEPT !.state = "destroyed",
                                    !.had_error_ = (@ \/ rc # 0)],
              user |-> Append(f.user, [cb |-> "flush", rc |-> rc])]
        ELSE [os |-> [f.os EXCEPT !.state = "destroyed"], user |-> f.user]

RustRawOStream_dtor(s, u, rc) ==
    LET f == raw_ostream_flush(s, u)
    IN  IF ~f.os.had_error_ /\ f.os.flush_cb_
        THEN [os   |-> [f.os EXCEPT !.state = "destroyed", !.had_error_ = (rc # 0)],
              user |-> Append(f.user, [cb |-> "flush", rc |-> rc])]
        ELSE [os |-> [f.os EXCEPT !.state = "destroyed"], user |-> f.user]

\* Faulty variant: write_impl forwards an empty buffer to the callback.
RustRawOStream_write_impl_forwards_empty(s, u, Size, data, rc) ==
    IF s.had_error_ THEN [os |-> s, user |-> u]
    ELSE IF ~s.write_cb_ THEN [os |-> [s EXCEPT !.had_error_ = TRUE], user |-> u]
    ELSE LET u1 == Append(u, [cb |-> "write", len |-> Size, data |-> data, rc |-> rc])
         IN  IF rc # 0
             THEN [os |-> [s EXCEPT !.had_error_ = TRUE], user |-> u1]
             ELSE [os |-> [s EXCEPT !.pos_ = @ + Size], user |-> u1]

\* Faulty variant: write_impl leaves the position where it was.
RustRawOStream_write_impl_keeps_pos(s, u, Size, data, rc) ==
    IF s.had_error_ \/ Size = 0 THEN [os |-> s, user |-> u]
    ELSE IF ~s.write_cb_ THEN [os |-> [s EXCEPT !.had_error_ = TRUE], user |-> u]
    ELSE LET u1 == Append(u, [cb |-> "write", len |-> Size, data |-> data, rc |-> rc])
         IN  IF rc # 0
             THEN [os |-> [s EXCEPT !.had_error_ = TRUE], user |-> u1]
             ELSE [os |-> s, user |-> u1]

RustRawOStream_write_impl(s, u, Size, data, rc) ==
    IF s.had_error_ \/ Size = 0 THEN [os |-> s, user |-> u]
    ELSE IF ~s.write_cb_ THEN [os |-> [s EXCEPT !.had_error_ = TRUE], user |-> u]
    ELSE LET u1 == Append(u, [cb |-> "write", len |-> Size, data |-> data, rc |-> rc])
         IN  IF rc # 0
             THEN [os |-> [s EXCEPT !.had_error_ = TRUE], user |-> u1]
             ELSE [os |-> [s EXCEPT !.pos_ = @ + Size], user |-> u1]

\* Faulty variant: had_error() never reports the latch.
had_error_never(s) == FALSE

had_error(s) == s.had_error_

current_pos(s) == s.pos_

----------------------------------------------------------------------------
(* Entry points.                                                            *)

EmitEntry    == "bpf_linker_emit_to_pwrite_stream"
BitcodeEntry == "bpf_linker_write_bitcode_to_stream"
PrintIREntry == "bpf_linker_print_ir_to_stream"

\* Arguments: a handle or callback is TRUE when non-null; error_message is TRUE
\* when the caller passes somewhere to store the message.
\* The values of the LLVMCodeGenFileType argument: the two enumerators and
\* any other integer a C caller may pass.
Codegens == {"LLVMAssemblyFile", "LLVMObjectFile", "unrecognised"}

EmitArgs ==
    [entry : {EmitEntry}, T : BOOLEAN, M : BOOLEAN, codegen : Codegens,
     write_cb : BOOLEAN, pwrite_cb : BOOLEAN, seek_cb : BOOLEAN,
     flush_cb : BOOLEAN, error_message : BOOLEAN]

\* Faulty variant: the two cases of the switch are exchanged.
select_file_type_swapped(codegen) ==
    IF codegen = "LLVMAssemblyFile" THEN "ObjectFile" ELSE "AssemblyFile"

\* switch (codegen): the llvm::CodeGenFileType requested from the backend.
select_file_type(codegen) ==
    IF codegen = "LLVMAssemblyFile" THEN "AssemblyFile" ELSE "ObjectFile"

RawOStreamArgs ==
    [entry : {BitcodeEntry, PrintIREntry}, M : BOOLEAN,
     write_cb : BOOLEAN, flush_cb : BOOLEAN]

MsgInvalidArgs == "invalid arguments: TM/Mod/write_cb/pwrite_cb must be non-null"
MsgCantEmit    == "TargetMachine can't emit a file of this type"
MsgStreamError == "error while writing to Rust pwrite stream"

\* The copy handed to the caller, or nullptr when malloc fails.
dup_cstr(s, malloc_ok) == IF malloc_ok THEN s ELSE "nullptr"

\* if (error_message) *error_message = dup_cstr(s);
set_error_message(s, malloc_ok) ==
    IF args.error_message THEN dup_cstr(s, malloc_ok) ELSE error_message

\* Faulty variant: the check forgets the offset-write callback.
emit_args_valid_without_pwrite_cb(a) == a.T /\ a.M /\ a.write_cb

\* The argument checks that precede the construction of the stream.
emit_args_valid(a) == a.T /\ a.M /\ a.write_cb /\ a.pwrite_cb

\* Faulty variant: the check forgets the write callback.
raw_ostream_args_valid_without_write_cb(a) == a.M

raw_ostream_args_valid(a) == a.M /\ a.write_cb

Init ==
    /\ args \in EmitArgs \cup RawOStreamArgs
    /\ pc = "entry"
    /\ os = NoStream
    /\ user = <<>>
    /\ requests = <<>>
    /\ cant_emit = "pending"
    /\ ret = <<>>
    /\ error_message = "untouched"
    /\ outcome = "pending"
    /\ ft = "unset"

(* bpf_linker_emit_to_pwrite_stream up to the call of addPassesToEmitFile. *)
emit_enter ==
    /\ pc = "entry"
    /\ args.entry = EmitEntry
    /\ IF ~emit_args_valid(args)
       THEN /\ \E malloc_ok \in BOOLEAN :
                 error_message' = set_error_message(MsgInvalidArgs, malloc_ok)
            /\ ret' = <<1>>
            /\ outcome' = "ConfigurationError"
            /\ pc' = "returned"
            /\ UNCHANGED <<os, ft>>
       ELSE /\ error_message' = IF args.error_message THEN "nullptr" ELSE error_message
            /\ os' = RustPwriteStream(args.write_cb, args.pwrite_cb,
                                      args.seek_cb, args.flush_cb)
            /\ ft' = select_file_type(args.codegen)
            /\ pc' = "addPassesToEmitFile"
            /\ UNCHANGED <<ret, outcome>>
    /\ UNCHANGED <<args, user, requests, cant_emit>>

(* The backend, holding the raw_pwrite_stream, appends Size bytes. *)
backend_write ==
    /\ pc \in {"addPassesToEmitFile", "run"}
    /\ Len(requests) < MaxCalls
    /\ \E Size \in Sizes, rc \in RCs :
         LET r == RustPwriteStream_write_impl(os, user, Size, Len(requests) + 1, rc)
         IN  /\ os' = r.os
             /\ user' = r.user
             /\ requests' = Append(requests, [op |-> "write", len |-> Size])
    /\ UNCHANGED <<args, ft, pc, cant_emit, ret, error_message, outcome>>

(* The backend patches Size bytes at the absolute offset Offset. *)
backend_pwrite ==
    /\ pc \in {"addPassesToEmitFile", "run"}
    /\ Len(requests) < MaxCalls
    /\ \E Size \in Sizes, Offset \in Offsets, rc \in RCs :
         LET r == RustPwriteStream_pwrite_impl(os, user, Size, Offset,
                                               Len(requests) + 1, rc)
         IN  /\ os' = r.os
             /\ user' = r.user
             /\ requests' = Append(requests,
                                   [op |-> "pwrite", len |-> Size, offset |-> Offset])
    /\ UNCHANGED <<args, ft, pc, cant_emit, ret, error_message, outcome>>

(* addPassesToEmitFile returns true: the early return, which destroys os. *)
emit_cant_emit ==
    /\ pc = "addPassesToEmitFile"
    /\ cant_emit' = "yes"
    /\ \E malloc_ok \in BOOLEAN :
         error_message' = set_error_message(MsgCantEmit, malloc_ok)
    /\ ret' = <<1>>
    /\ outcome' = "BackendError"
    /\ \E rc \in RCs :
         LET d == RustPwriteStream_dtor(os, user, rc)
         IN  os' = d.os /\ user' = d.user
    /\ pc' = "returned"
    /\ UNCHANGED <<args, ft, requests>>

(* addPassesToEmitFile returns false: the pass pipeline starts to run. *)
emit_run ==
    /\ pc = "addPassesToEmitFile"
    /\ cant_emit' = "no"
    /\ pc' = "run"
    /\ UNCHANGED <<args, ft, os, user, requests, ret, error_message, outcome>>

(* pass.run returned: os.flush(), the had_error() test, the return, ~os. *)
emit_finish ==
    /\ pc = "run"
    /\ LET f == raw_ostream_flush(os, user)
       IN  /\ IF had_error(f.os)
              THEN /\ \E malloc_ok \in BOOLEAN :
                        error_message' = set_error_message(MsgStreamError, malloc_ok)
                   /\ ret' = <<1>>
                   /\ outcome' = "SinkError"
              ELSE /\ ret' = <<0>>
                   /\ outcome' = "Success"
                   /\ UNCHANGED error_message
           /\ \E rc \in RCs :
                LET d == RustPwriteStream_dtor(f.os, f.user, rc)
                IN  os' = d.os /\ user' = d.user
    /\ pc' = "returned"
    /\ UNCHANGED <<args, ft, requests, cant_emit>>

(* bpf_linker_write_bitcode_to_stream / bpf_linker_print_ir_to_stream up to *)
(* the call of the writer.                                                  *)
raw_ostream_enter(entry, writer) ==
    /\ pc = "entry"
    /\ args.entry = entry
    /\ IF ~raw_ostream_args_valid(args)
       THEN /\ ret' = <<1>>
            /\ outcome' = "ConfigurationError"
            /\ pc' = "returned"
            /\ UNCHANGED os
       ELSE /\ os' = RustRawOStream(args.write_cb, args.flush_cb)
            /\ pc' = writer
            /\ UNCHANGED <<ret, outcome>>
    /\ UNCHANGED <<args, ft, user, requests, cant_emit, error_message>>

write_bitcode_enter == raw_ostream_enter(BitcodeEntry, "WriteBitcodeToFile")

print_ir_enter == raw_ostream_enter(PrintIREntry, "print")

(* The writer, holding the raw_ostream, appends Size bytes. *)
writer_write ==
    /\ pc \in {"WriteBitcodeToFile", "print"}
    /\ Len(requests) < MaxCalls
    /\ \E Size \in Sizes, rc \in RCs :
         LET r == RustRawOStream_write_impl(os, user, Size, Len(requests) + 1, rc)
         IN  /\ os' = r.os
             /\ user' = r.user
             /\ requests' = Append(requests, [op |-> "write", len |-> Size])
    /\ UNCHANGED <<args, ft, pc, cant_emit, ret, error_message, outcome>>

(* The writer returned: os.flush(), return os.had_error() ? 1 : 0, ~os. *)
raw_ostream_finish(writer) ==
    /\ pc = writer
    /\ LET f == raw_ostream_flush(os, user)
       IN  /\ ret' = <<IF had_error(f.os) THEN 1 ELSE 0>>
           /\ outcome' = IF had_error(f.os) THEN "SinkError" ELSE "Success"
           /\ \E rc \in RCs :
                LET d == RustRawOStream_dtor(f.os, f.user, rc)
                IN  os' = d.os /\ user' = d.user
    /\ pc' = "returned"
    /\ UNCHANGED <<args, ft, requests, cant_emit, error_message>>

write_bitcode_finish == raw_ostream_finish("WriteBitcodeToFile")

print_ir_finish == raw_ostream_finish("print")

Next ==
    \/ emit_enter
    \/ backend_write
    \/ backend_pwrite
    \/ emit_cant_emit
    \/ emit_run
    \/ emit_finish
    \/ write_bitcode_enter
    \/ print_ir_enter
    \/ writer_write
    \/ write_bitcode_finish
    \/ print_ir_finish

Spec == Init /\ [][Next]_vars

----------------------------------------------------------------------------
(* The stream classes on their own: one instance, constructed with any      *)
(* callbacks, receives any sequence of member calls and is then destroyed.  *)
(* Here args holds the constructor's arguments, pc is "constructed" until   *)
(* the destructor has run, and ret holds what the last seek_append_pos      *)
(* returned.                                                                *)

PwriteStreamClass == "RustPwriteStream"
RawOStreamClass   == "RustRawOStream"

\* The entry points, the only code that constructs these classes, pass the
\* mandatory callbacks non-null; the optional ones may be null.
PwriteStreamCtorArgs ==
    [entry : {PwriteStreamClass}, write_cb : {TRUE}, pwrite_cb : {TRUE},
     seek_cb : BOOLEAN, flush_cb : BOOLEAN]

RawOStreamCtorArgs ==
    [entry : {RawOStreamClass}, write_cb : {TRUE}, flush_cb : BOOLEAN]

InitStream ==
    /\ args \in PwriteStreamCtorArgs \cup RawOStreamCtorArgs
    /\ pc = "constructed"
    /\ os = IF args.entry = PwriteStreamClass
            THEN RustPwriteStream(args.write_cb, args.pwrite_cb,
                                  args.seek_cb, args.flush_cb)
            ELSE RustRawOStream(args.write_cb, args.flush_cb)
    /\ user = <<>>
    /\ requests = <<>>
    /\ cant_emit = "pending"
    /\ ret = <<>>
    /\ error_message = "untouched"
    /\ outcome = "pending"
    /\ ft = "unset"

(* raw_ostream::write -> write_impl of the instance's class. *)
stream_write ==
    /\ pc = "constructed"
    /\ Len(requests) < MaxOps
    /\ \E Size \in Sizes, rc \in RCs :
         LET r == IF args.entry = PwriteStreamClass
                  THEN RustPwriteStream_write_impl(os, user, Size,
                                                   Len(requests) + 1, rc)
                  ELSE RustRawOStream_write_impl(os, user, Size,
                                                 Len(requests) + 1, rc)
         IN  /\ os' = r.os
             /\ user' = r.user
             /\ requests' = Append(requests, [op |-> "write", len |-> Size])
    /\ UNCHANGED <<args, ft, pc, cant_emit, ret, error_message, outcome>>

(* raw_pwrite_stream::pwrite -> RustPwriteStream::pwrite_impl. *)
stream_pwrite ==
    /\ pc = "constructed"
    /\ args.entry = PwriteStreamClass
    /\ Len(requests) < MaxOps
    /\ \E Size \in Sizes, Offset \in Offsets, rc \in RCs :
         LET r == RustPwriteStream_pwrite_impl(os, user, Size, Offset,
                                               Len(requests) + 1, rc)
         IN  /\ os' = r.os
             /\ user' = r.user
             /\ requests' = Append(requests,
                                   [op |-> "pwrite", len |-> Size, offset |-> Offset])
    /\ UNCHANGED <<args, ft, pc, cant_emit, ret, error_message, outcome>>

(* RustPwriteStream::seek_append_pos. *)
stream_seek ==
    /\ pc = "constructed"
    /\ args.entry = PwriteStreamClass
    /\ Len(requests) < MaxOps
    /\ \E new_pos \in Offsets, rc \in RCs :
         LET r == seek_append_pos(os, user, new_pos, rc)
         IN  /\ os' = r.os
             /\ user' = r.user
             /\ ret' = <<r.result>>
             /\ requests' = Append(requests, [op |-> "seek", offset |-> new_pos])
    /\ UNCHANGED <<args, ft, pc, cant_emit, error_message, outcome>>

(* The destructor of the instance's class. *)
stream_destroy ==
    /\ pc = "constructed"
    /\ \E rc \in RCs :
         LET d == IF args.entry = PwriteStreamClass
                  THEN RustPwriteStream_dtor(os, user, rc)
                  ELSE RustRawOStream_dtor(os, user, rc)
         IN  os' = d.os /\ user' = d.user
    /\ pc' = "destroyed"
    /\ UNCHANGED <<args, ft, requests, cant_emit, ret, error_message, outcome>>

NextStream ==
    \/ stream_write
    \/ stream_pwrite
    \/ stream_seek
    \/ stream_destroy

SpecStream == InitStream /\ [][NextStream]_vars

----------------------------------------------------------------------------
(* What the claims speak of, read off the caller's context.                 *)

\* The indices of the callback invocations of the given kinds.
Calls(kinds) == {i \in DOMAIN user : user[i].cb \in kinds}

\* Those among them that returned non-zero.
FailedCalls(kinds) == {i \in Calls(kinds) : user[i].rc # 0}

\* The total length of the forward writes whose callback returned zero.
RECURSIVE WrittenOk(_)
WrittenOk(log) ==
    IF log = <<>> THEN 0
    ELSE LET c == log[Len(log)]
         IN  WrittenOk(SubSeq(log, 1, Len(log) - 1))
             + (IF c.cb = "write" /\ c.rc = 0 THEN c.len ELSE 0)

Returned == pc = "returned"

\* The step is one stream call of the backend; q is that call.
IsRequest(q) ==
    /\ Len(requests') = Len(requests) + 1
    /\ q = requests'[Len(requests')]

----------------------------------------------------------------------------
\* C1: In every emission operation, a write or offset-write callback that
\* returned non-zero is the last callback of any kind of that operation, and
\* the entry point then returns a failure.
C1_NoCallbackAfterFailedWrite ==
    /\ \A i \in FailedCalls({"write", "pwrite"}) : i = Len(user)
    /\ (Returned /\ FailedCalls({"write", "pwrite"}) # {}) => ret = <<1>>

\* The second call's callback failed, a third non-empty call followed, and the
\* operation returned with a flush callback supplied.
C1_Witness ==
    /\ Returned
    /\ Len(requests) = 3
    /\ requests[3].len > 0
    /\ Len(user) = 2
    /\ user[2].rc # 0
    /\ args.flush_cb

\* C2: The flush callback runs before the latch is inspected, so an operation
\* whose writes all succeeded and whose flush callback returned non-zero returns
\* failure.
C2_FlushFailureIsReported ==
    (Returned /\ FailedCalls({"flush"}) # {}) => ret = <<1>>

\* C3: With a flush callback supplied and validation passed, the flush callback
\* is invoked exactly once if no earlier callback returned non-zero and not at
\* all if one did; never more than once per stream.
C3_FlushExactlyOnce ==
    /\ Cardinality(Calls({"flush"})) <= 1
    /\ (Returned /\ os.state # "none" /\ args.flush_cb) =>
          Cardinality(Calls({"flush"})) =
              (IF FailedCalls({"write", "pwrite"}) = {} THEN 1 ELSE 0)

\* Three callbacks succeeded and the flush followed them.
C3_Witness ==
    /\ Returned
    /\ Len(user) = 4
    /\ user[4].cb = "flush"
    /\ FailedCalls({"write", "pwrite"}) = {}

\* C4: A missing write callback or null handle (any entry point), or a missing
\* offset-write callback (object/assembly entry point), makes the entry point
\* return the configuration failure with no callback invoked and no stream
\* constructed; the bitcode and textual-IR entry points need no offset-write
\* callback.
C4_ValidationPrecedesEverything ==
    /\ (args.entry = EmitEntry
            /\ ~(args.T /\ args.M /\ args.write_cb /\ args.pwrite_cb)) =>
          /\ user = <<>> /\ os = NoStream /\ requests = <<>>
          /\ Returned => (ret = <<1>> /\ outcome = "ConfigurationError")
    /\ (args.entry # EmitEntry /\ ~(args.M /\ args.write_cb)) =>
          /\ user = <<>> /\ os = NoStream /\ requests = <<>>
          /\ Returned => (ret = <<1>> /\ outcome = "ConfigurationError")
    /\ (args.entry # EmitEntry /\ args.M /\ args.write_cb /\ Returned) =>
          (outcome # "ConfigurationError" /\ os.state = "destroyed")

\* The object/assembly entry point returned for want of the offset-write
\* callback alone, with both optional callbacks supplied.
C4_Witness ==
    /\ Returned
    /\ args.entry = EmitEntry
    /\ args.T /\ args.M /\ args.write_cb /\ ~args.pwrite_cb
    /\ args.flush_cb /\ args.seek_cb

\* C5 (as stated): When the backend reports the file type unsupported before
\* issuing any write, the entry point returns the backend failure and no
\* callback of any kind is invoked, whatever optional callbacks were supplied.
C5_NoCallbackOnCantEmit ==
    (Returned /\ cant_emit = "yes" /\ requests = <<>>) =>
        (ret = <<1>> /\ outcome = "BackendError" /\ user = <<>>)

\* C5 (amended): ... the entry point returns the backend failure, whose message
\* (when the caller asked for one) is the backend's or, if its copy could not be
\* allocated, null; no write, offset-write or reposition callback is invoked,
\* and the flush callback is invoked exactly once if supplied.
C5_OnlyFlushOnCantEmit ==
    (Returned /\ cant_emit = "yes" /\ requests = <<>>) =>
        /\ ret = <<1>>
        /\ outcome = "BackendError"
        /\ args.error_message => error_message \in {MsgCantEmit, "nullptr"}
        /\ Calls({"write", "pwrite", "seek"}) = {}
        /\ Len(user) = (IF args.flush_cb THEN 1 ELSE 0)

\* The backend refused at once, every optional callback was supplied, and the
\* caller got the backend's message.
C5_Witness ==
    /\ Returned
    /\ cant_emit = "yes"
    /\ requests = <<>>
    /\ args.flush_cb /\ args.seek_cb
    /\ error_message = MsgCantEmit
    /\ Len(user) = 1

\* The message the caller holds after a return of the given kind: a copy of
\* the kind's text, or null when the copy could not be allocated.
MessagesOf(kind) ==
    CASE kind = "Success"      -> {"nullptr"}
      [] kind = "SinkError"    -> {MsgStreamError, "nullptr"}
      [] kind = "BackendError" -> {MsgCantEmit, "nullptr"}

\* The object/assembly entry point returns in this step, os.had_error_ being the
\* latch it leaves the backend with, and the return is of the given kind.
EmitReturns(kind) ==
    /\ outcome' = kind
    /\ ret' = <<IF kind = "Success" THEN 0 ELSE 1>>
    /\ IF args.error_message
       THEN error_message' \in MessagesOf(kind)
       ELSE error_message' = "untouched"

\* C6 (as stated): The object/assembly entry point reports the sink failure if
\* the latch is set, otherwise the backend failure if the backend reported one,
\* otherwise success; the message is null on success and that of the reported
\* kind on failure. With the latch set and a backend failure, the sink failure
\* is reported.
C6_LatchThenBackend ==
    [][(pc' = "returned" /\ args.entry = EmitEntry /\ os.state = "live") =>
          EmitReturns(IF os.had_error_ THEN "SinkError"
                      ELSE IF cant_emit' = "yes" THEN "BackendError"
                      ELSE "Success")]_vars

\* C6 (amended): The object/assembly entry point reports the backend failure if
\* the backend reported one, whatever the latch; otherwise the sink failure if
\* the latch is set when the backend's run has returned (the flush callback,
\* run only afterwards by the teardown, does not count); otherwise success. The
\* message is null on success and, on failure, that of the reported kind or
\* null if its copy could not be allocated.
C6_BackendThenLatch ==
    [][(pc' = "returned" /\ args.entry = EmitEntry /\ os.state = "live") =>
          EmitReturns(IF cant_emit' = "yes" THEN "BackendError"
                      ELSE IF os.had_error_ THEN "SinkError"
                      ELSE "Success")]_vars

\* A callback failed while the backend was setting up, the backend then
\* refused the file type, and the caller got the backend's message.
C6_Witness ==
    /\ Returned
    /\ cant_emit = "yes"
    /\ FailedCalls({"write", "pwrite"}) # {}
    /\ error_message = MsgCantEmit

\* C7: For both stream types, position() equals the total length of the forward
\* writes whose write callback returned zero; offset-writes, failed writes,
\* writes skipped under a set latch and empty writes leave it alone.
C7_PositionIsSumOfSuccessfulWrites ==
    os.state # "none" => current_pos(os) = WrittenOk(user)

\* 4 and 10 bytes were written around a successful offset-write.
C7_Witness ==
    /\ os.state = "live"
    /\ current_pos(os) = 14
    /\ Calls({"pwrite"}) # {}
    /\ FailedCalls({"pwrite"}) = {}

\* C8: A zero-length write or offset-write, whatever the latch and the
\* position, invokes no callback and changes neither latch nor position.
C8_EmptyWriteIsNoOp ==
    [][\A q \in {requests'[i] : i \in DOMAIN requests'} :
          (IsRequest(q) /\ q.len = 0) => (user' = user /\ os' = os)]_vars

\* An empty offset-write was issued on a clear latch at position 4.
C8_Witness ==
    /\ Len(requests) = 2
    /\ requests[2].op = "pwrite"
    /\ requests[2].len = 0
    /\ os.state = "live"
    /\ ~os.had_error_
    /\ current_pos(os) = 4

\* C9: A non-empty offset-write on a clear latch is forwarded once to the
\* offset-write callback with its exact offset and length, whatever the offset;
\* it succeeds when the callback returns zero and leaves the position alone.
\* With a sink that grows and zero-fills, writing 4 bytes and then 4 bytes at
\* offset 100 leaves a store of at least 104 bytes, bytes [4,100) zero, and
\* position 4.
C9_OffsetWriteForwardedAsIs ==
    [][/\ \A q \in {requests'[i] : i \in DOMAIN requests'} :
            (IsRequest(q) /\ q.op = "pwrite" /\ q.len > 0 /\ ~os.had_error_) =>
               /\ Len(user') = Len(user) + 1
               /\ SubSeq(user', 1, Len(user)) = user
               /\ LET c == user'[Len(user')]
                  IN  /\ c.cb = "pwrite"
                      /\ c.len = q.len
                      /\ c.offset = q.offset
                      /\ os'.had_error_ = (c.rc # 0)
               /\ os'.pos_ = os.pos_
       /\ (/\ Len(user') = 2
           /\ user'[1].cb = "write" /\ user'[1].len = 4 /\ user'[1].rc = 0
           /\ user'[2].cb = "pwrite" /\ user'[2].len = 4 /\ user'[2].rc = 0
           /\ user'[2].offset = 100) =>
              /\ Len(SinkOf(user')) >= 104
              /\ \A i \in 5..100 : SinkOf(user')[i] = 0
              /\ \A i \in 1..4 : SinkOf(user')[i] = user'[1].data
              /\ \A i \in 101..104 : SinkOf(user')[i] = user'[2].data
              /\ os'.pos_ = 4]_vars

\* 4 bytes were written and 4 more patched at offset 100, both accepted.
C9_Witness ==
    /\ os.state = "live"
    /\ Len(user) = 2
    /\ user[1].cb = "write" /\ user[1].len = 4 /\ user[1].rc = 0
    /\ user[2].cb = "pwrite" /\ user[2].len = 4 /\ user[2].rc = 0
    /\ user[2].offset = 100
    /\ Len(SinkOf(user)) = 104
    /\ current_pos(os) = 4

\* C10: A stream an entry point constructed is torn down before the entry point
\* returns, on every exit path; the teardown invokes the flush callback if and
\* only if the latch is clear and a flush callback was supplied; no callback is
\* invoked after the return.
C10_TeardownBeforeReturn ==
    [][/\ pc' = "returned" => os'.state # "live"
       /\ (pc' = "returned" /\ os.state = "live") =>
             /\ os'.state = "destroyed"
             /\ IF ~os.had_error_ /\ os.flush_cb_
                THEN /\ Len(user') = Len(user) + 1
                     /\ SubSeq(user', 1, Len(user)) = user
                     /\ user'[Len(user')].cb = "flush"
                ELSE user' = user
       /\ pc = "returned" => user' = user]_vars

\* The early return on a backend failure tore the stream down and flushed it,
\* the backend having written before.
C10_Witness ==
    /\ Returned
    /\ cant_emit = "yes"
    /\ os.state = "destroyed"
    /\ Len(user) = 2
    /\ user[2].cb = "flush"

----------------------------------------------------------------------------
(* Claims about one stream instance, checked under SpecStream.              *)

\* The step is a forward write whose callback was invoked and returned zero.
IsSuccessfulWrite ==
    /\ \E q \in {requests'[i] : i \in DOMAIN requests'} :
          IsRequest(q) /\ q.op = "write"
    /\ Len(user') = Len(user) + 1
    /\ user'[Len(user')].cb = "write"
    /\ user'[Len(user')].rc = 0
    /\ os'.pos_ = os.pos_ + user'[Len(user')].len

\* The step is a seek_append_pos call.
IsSeek ==
    \E q \in {requests'[i] : i \in DOMAIN requests'} : IsRequest(q) /\ q.op = "seek"

\* C11: On one stream instance, over any sequence of write, offset-write,
\* reposition and teardown, a set latch is never cleared and no callback of any
\* kind is invoked once it is set.
C11_LatchStopsEveryCallback ==
    [][os.had_error_ => (os'.had_error_ /\ user' = user)]_vars

\* C12: A non-zero return from a callback of any kind (write, offset-write,
\* reposition, flush) sets the latch, so that it is the last callback on the
\* stream and the stream reports an error.
C12_EveryFailureLatches ==
    \A i \in FailedCalls({"write", "pwrite", "seek", "flush"}) :
        had_error(os) /\ i = Len(user)

\* C13 (as stated): The append position never decreases over any sequence of
\* write, offset-write, reposition and teardown, and it increases only by a
\* forward write whose callback returned zero.
C13_PositionMonotonic ==
    [][/\ os'.pos_ >= os.pos_
       /\ os'.pos_ > os.pos_ => IsSuccessfulWrite]_vars

\* C13 (amended): The append position never decreases over write, offset-write
\* and teardown, and among these it increases only by a forward write whose
\* callback returned zero; a reposition sets it to the requested offset, lower
\* or higher than before.
C13_PositionMonotonicButForSeek ==
    [][IF IsSeek
       THEN os'.pos_ = requests'[Len(requests')].offset
       ELSE /\ os'.pos_ >= os.pos_
            /\ os'.pos_ > os.pos_ => IsSuccessfulWrite]_vars

\* 4 bytes were written and the position was then set back to 0.
C13_Witness ==
    /\ Len(requests) = 2
    /\ requests[2].op = "seek"
    /\ requests[2].offset = 0
    /\ Len(user) >= 1
    /\ user[1].cb = "write" /\ user[1].rc = 0 /\ user[1].len = 4
    /\ current_pos(os) = 0

\* C15: reposition(offset) sets the append position to offset, and later
\* successful writes advance from it; a supplied reposition callback is invoked
\* exactly once with that offset and its status (zero or not) is the result; with
\* none supplied, reposition succeeds and invokes nothing.
C15_RepositionSetsPosition ==
    [][/\ IsSeek =>
            /\ os' = [os EXCEPT !.pos_ = requests'[Len(requests')].offset]
            /\ IF os.seek_cb_
               THEN /\ Len(user') = Len(user) + 1
                    /\ SubSeq(user', 1, Len(user)) = user
                    /\ user'[Len(user')].cb = "seek"
                    /\ user'[Len(user')].offset = requests'[Len(requests')].offset
                    /\ ret' = <<user'[Len(user')].rc = 0>>
               ELSE user' = user /\ ret' = <<TRUE>>
       /\ (/\ \E q \in {requests'[i] : i \in DOMAIN requests'} :
                 IsRequest(q) /\ q.op = "write"
           /\ Len(user') = Len(user) + 1
           /\ user'[Len(user')].rc = 0) =>
              os'.pos_ = os.pos_ + user'[Len(user')].len]_vars

\* The position was set to 100, the sink's reposition callback refused, and a
\* write of 4 bytes then succeeded.
C15_Witness ==
    /\ Len(requests) = 2
    /\ requests[1].op = "seek" /\ requests[1].offset = 100
    /\ Len(user) = 2
    /\ user[1].cb = "seek" /\ user[1].rc # 0
    /\ ret = <<FALSE>>
    /\ user[2].cb = "write" /\ user[2].len = 4 /\ user[2].rc = 0
    /\ current_pos(os) = 104

\* What a RustRawOStream built with the same write and flush callbacks is and
\* has invoked after the first n calls of `requests`, its callbacks answering
\* as the ones in `user` did, call for call (and with 0 beyond them).
RECURSIVE RawOStreamAfter(_)
RawOStreamAfter(n) ==
    IF n = 0
    THEN [os |-> RustRawOStream(args.write_cb, args.flush_cb), user |-> <<>>]
    ELSE LET w == RawOStreamAfter(n - 1)
             k == Len(w.user) + 1
         IN  RustRawOStream_write_impl(w.os, w.user, requests[n].len, n,
                                       IF k <= Len(user) THEN user[k].rc ELSE 0)

\* The same, followed by the teardown if the instance at hand is destroyed.
RawOStreamPeer ==
    LET w == RawOStreamAfter(Len(requests))
        k == Len(w.user) + 1
    IN  IF os.state = "destroyed"
        THEN RustRawOStream_dtor(w.os, w.user,
                                 IF k <= Len(user) THEN user[k].rc ELSE 0)
        ELSE w

\* C16: Given forward writes only and the same callback results, followed by
\* teardown, a RustPwriteStream and a RustRawOStream invoke the same write and
\* flush callbacks in the same order and agree on position() and on the latch
\* after every step.
C16_PwriteStreamRefinesRawOStream ==
    (args.entry = PwriteStreamClass
        /\ \A i \in DOMAIN requests : requests[i].op = "write") =>
       /\ RawOStreamPeer.user = user
       /\ current_pos(RawOStreamPeer.os) = current_pos(os)
       /\ had_error(RawOStreamPeer.os) = had_error(os)
       /\ RawOStreamPeer.os.state = os.state

\* A RustPwriteStream took writes of 4 and 10 bytes and a refused one, and was
\* destroyed.
C16_Witness ==
    /\ args.entry = PwriteStreamClass
    /\ os.state = "destroyed"
    /\ Len(requests) = 3
    /\ \A i \in DOMAIN requests : requests[i].op = "write"
    /\ current_pos(os) = 14
    /\ had_error(os)
    /\ Len(user) = 3

----------------------------------------------------------------------------
(* Further claims about the entry points, checked under Spec.               *)

\* The backend's calls with their place in `requests`, and the non-empty ones.
NumberedRequests == [i \in DOMAIN requests |-> [i |-> i, q |-> requests[i]]]

NonEmptyRequests == SelectSeq(NumberedRequests, LAMBDA t : t.q.len > 0)

\* The write and offset-write callbacks the sink received, in order.
Forwarded == SelectSeq(user, LAMBDA c : c.cb \in {"write", "pwrite"})

\* Callback invocation c is backend call t, passed on as it came.
ForwardedAsIs(c, t) ==
    /\ c.cb = t.q.op
    /\ c.len = t.q.len
    /\ c.data = t.i
    /\ c.cb = "pwrite" => c.offset = t.q.offset

\* C14: The write and offset-write callbacks the sink receives are exactly the
\* backend's non-empty write and offset-write calls, in order and with the same
\* lengths and offsets, cut after the first one whose callback returned
\* non-zero; nothing is held back, replayed or compensated; a sink applying them
\* in call order lets a later offset-write overwrite an earlier one.
C14_ForwardingPreservesOrder ==
    /\ \A fw \in {Forwarded}, ne \in {NonEmptyRequests} :
          /\ Len(fw) <= Len(ne)
          /\ \A i \in DOMAIN fw :
                /\ ForwardedAsIs(fw[i], ne[i])
                /\ fw[i].rc # 0 => i = Len(fw)
          /\ Len(fw) < Len(ne) => (fw # <<>> /\ fw[Len(fw)].rc # 0)
    /\ (/\ Len(user) = 2
        /\ user[1].cb = "pwrite" /\ user[1].len = 10 /\ user[1].rc = 0
        /\ user[1].offset = 0
        /\ user[2].cb = "pwrite" /\ user[2].len = 4 /\ user[2].rc = 0
        /\ user[2].offset = 0) =>
           /\ Len(SinkOf(user)) = 10
           /\ \A k \in 1..4 : SinkOf(user)[k] = user[2].data
           /\ \A k \in 5..10 : SinkOf(user)[k] = user[1].data

\* 10 bytes were patched at offset 0, an empty write came next, and 4 bytes
\* were then patched at offset 0: the store begins with the later bytes.
C14_Witness ==
    /\ Len(requests) = 3
    /\ requests[2].len = 0
    /\ Len(user) = 2
    /\ user[1].cb = "pwrite" /\ user[1].len = 10 /\ user[1].offset = 0
    /\ user[2].cb = "pwrite" /\ user[2].len = 4 /\ user[2].offset = 0
    /\ FailedCalls({"pwrite"}) = {}
    /\ SinkOf(user)[4] = user[2].data
    /\ SinkOf(user)[5] = user[1].data

\* C17: Through the entry points a stream always holds its mandatory callbacks,
\* so its latch is set only after a write, offset-write or flush callback
\* returned non-zero: the branches for a null callback are never taken.
C17_LatchMeansFailedCallback ==
    os.state # "none" =>
        /\ os.write_cb_
        /\ args.entry = EmitEntry => os.pwrite_cb_
        /\ had_error(os) => FailedCalls({"write", "pwrite", "flush"}) # {}

\* An offset-write callback failed, which set the latch.
C17_Witness ==
    /\ os.state = "live"
    /\ had_error(os)
    /\ FailedCalls({"pwrite"}) # {}

\* C18: The object/assembly entry point requests assembly text for the assembly
\* selector and an object file for every other selector value; no selector
\* value makes it return the configuration failure.
C18_SelectorIsTotal ==
    args.entry = EmitEntry =>
        /\ ft \in {"unset", "AssemblyFile", "ObjectFile"}
        /\ ft = "AssemblyFile" => args.codegen = "LLVMAssemblyFile"
        /\ ft = "ObjectFile" => args.codegen # "LLVMAssemblyFile"
        /\ (pc # "entry" /\ args.T /\ args.M /\ args.write_cb /\ args.pwrite_cb) =>
              (ft # "unset" /\ outcome # "ConfigurationError")

\* An unrecognised selector value led to the emission of an object file.
C18_Witness ==
    /\ Returned
    /\ args.entry = EmitEntry
    /\ args.codegen = "unrecognised"
    /\ ft = "ObjectFile"
    /\ outcome = "Success"
    /\ user # <<>>

====
